---- MODULE Spec2Model ----
(***************************************************************************)
(* Model of the metrika agent's discovery-and-pipeline core:               *)
(*   - package watch   (Watch, Start, TimerWatch)                          *)
(*   - package global  (StreamRegisterer)                                  *)
(*   - package fingerprint (New, NewWithValidation, validate, Write)       *)
(* Each package is one specification over the shared variable tuple; the   *)
(* variables of the other packages stay unchanged.                         *)
(***************************************************************************)
EXTENDS Integers, Sequences, FiniteSets, TLC

VARIABLES
    \* ---- package watch ----
    kind,       \* "Watch" (base) or "TimerWatch"
    conf,       \* the TimerWatchConf.Interval NewTimerWatch was given (0: base Watch)
    Interval,   \* TimerWatchConf.Interval after NewTimerWatch (0: a base Watch has none)
    Running,    \* Watch.Running
    StopKey,    \* Watch.StopKey: buffered channel of capacity StopKeyCap
    onceDone,   \* sync.Once.done of Watch.startOnce
    onceM,      \* sync.Once.m holder: 0 when unlocked, else the caller holding it
    listeners,  \* Watch.listeners
    pc,         \* position of every caller goroutine inside Start/Stop/Subscribe
    local,      \* Subscribe: the slice append() computed, not yet stored
    tpc,        \* position of the timerLoop goroutine
    snap,       \* Emit: the slice the range loop iterates (evaluated once)
    idx,        \* Emit: index of the next handler to send to
    deadline,   \* instant at which the pending time.After fires
    now,        \* time elapsed since the timer loop was spawned
    delivered,  \* per target: the sends it accepted, as <<emit number, index>>
    cnt,        \* history counters of the watch package
    \* ---- package global ----
    streams,    \* StreamRegisterer.streams
    regRes,     \* return value of the last Register call
    rpc,        \* position of the main goroutine inside StreamRegisterer.Start
    rsnap,      \* Start: the slice the range loop iterates
    ridx,       \* Start: index of the next stream to start
    rargs,      \* arguments of the Start call in progress / last made
    invoked,    \* calls s.Start(ctx, wg, ch) made so far, in order
    chq,        \* per channel: the samples buffered in it
    observed,   \* per invocation: the samples that sink loop received
    rcnt,       \* history counters of the global package
    wg,         \* counter of the sync.WaitGroup Start was given
    ctxDone,    \* the context Start was given has been cancelled
    chClosed,   \* the channel Start was given has been closed
    sinkDone,   \* per invocation: that sink's run loop has returned
    \* ---- package fingerprint ----
    store,      \* content of the durable store (the writer's file)
    fp,         \* the Fingerprint value last returned (hash; <<>> is zerofp)
    fperr,      \* the error last returned
    fphist,     \* history of the fingerprint operations
    \* ---- package algorand ----
    alog,       \* the calls made on the adapter, in order, with what each returned
    acrashed    \* a call panicked: the goroutine making the calls is gone

wvars == <<kind, conf, Interval, Running, StopKey, onceDone, onceM, listeners, pc, local,
           tpc, snap, idx, deadline, now, delivered, cnt>>
rvars == <<streams, regRes, rpc, rsnap, ridx, rargs, invoked, chq, observed, rcnt,
           wg, ctxDone, chClosed, sinkDone>>
fvars == <<store, fp, fperr, fphist>>
avars == <<alog, acrashed>>
vars == <<wvars, rvars, fvars, avars>>

(***************************************************************************)
(* Bounds                                                                  *)
(***************************************************************************)
NumCallers == 2     \* goroutines calling Start / Stop / Subscribe
MaxCalls == 4       \* Start, Stop and Subscribe calls made in one run
MaxTime == 2        \* time units that elapse in one run
MaxRun == 3         \* time units a watcher is left running undisturbed
MaxStreams == 3     \* streams registered in one run
MaxSamples == 3     \* samples pushed onto the shared channel in one run
ChanCap == 1        \* samples the shared channel buffers
MaxDataLen == 1     \* bytes of the data a fingerprint is computed from
MaxFpOps == 3       \* fingerprint operations made in one run
MaxAdapterCalls == 4 \* calls made on the discovery adapter in one run

Callers == 1..NumCallers
Targets == {"t1", "t2"}

(***************************************************************************)
(* package watch                                                           *)
(***************************************************************************)
Second == 1000000000            \* time.Second, in time.Duration units
StopKeyCap == 1                 \* make(chan bool, 1)
ConfIntervals == {-1, 0, 1, 2}  \* TimerWatchConf.Interval values tried

\* Mutant of NewTimerWatchInterval: the configured interval is kept as given.
NewTimerWatchIntervalAsGiven(c) == c

\* NewTimerWatch: the interval the returned watcher holds.
NewTimerWatchInterval(c) == IF c < 1 THEN Second ELSE c

Bump(f) == [cnt EXCEPT ![f] = @ + 1]

Busy(t) == pc[t] # "idle"
\* A call by t begins while another caller is inside a call.
Overlaps(t) == \E u \in Callers \ {t} : Busy(u)

CntInit == [startCalls |-> 0, startsReturned |-> 0, startUnsafeRuns |-> 0,
            spawned |-> 0, stopCalls |-> 0, stopsFound |-> 0, stopsReturned |-> 0,
            stopFnRuns |-> 0, stopSends |-> 0, subs |-> 0,
            emitCalls |-> 0, emitsDone |-> 0, overlap |-> FALSE, late |-> FALSE,
            subAt |-> [h \in Targets |-> -1]]

\* NewWatch / NewTimerWatch.
WatchInit ==
    /\ \/ kind = "Watch" /\ conf = 0 /\ Interval = 0
       \/ /\ kind = "TimerWatch"
          /\ conf \in ConfIntervals
          /\ Interval = NewTimerWatchInterval(conf)
    /\ Running = FALSE
    /\ StopKey = <<>>
    /\ onceDone = FALSE
    /\ onceM = 0
    /\ listeners = <<>>
    /\ pc = [t \in Callers |-> "idle"]
    /\ local = [t \in Callers |-> <<>>]
    /\ tpc = "none"
    /\ snap = <<>>
    /\ idx = 0
    /\ deadline = 0
    /\ now = 0
    /\ delivered = [h \in Targets |-> <<>>]
    /\ cnt = CntInit

WatchIdle ==
    /\ kind = "Watch"
    /\ conf = 0
    /\ Interval = 0
    /\ Running = FALSE
    /\ StopKey = <<>>
    /\ onceDone = FALSE
    /\ onceM = 0
    /\ listeners = <<>>
    /\ pc = [t \in Callers |-> "idle"]
    /\ local = [t \in Callers |-> <<>>]
    /\ tpc = "none"
    /\ snap = <<>>
    /\ idx = 0
    /\ deadline = 0
    /\ now = 0
    /\ delivered = [h \in Targets |-> <<>>]
    /\ cnt = CntInit

\* The variables the callers' steps never touch.
TimerUnch == UNCHANGED <<tpc, snap, idx, deadline, now, delivered, rvars, fvars, avars>>

\* ---- Start(watcher): watcher.once().Do(watcher.StartUnsafe) ----

\* sync.Once.Do, fast path: done is set, the call returns at once; otherwise the
\* caller goes to doSlow and queues for the mutex.
CallStart(t) ==
    /\ pc[t] = "idle"
    /\ cnt.startCalls + cnt.stopCalls + cnt.subs < MaxCalls
    /\ pc' = [pc EXCEPT ![t] = IF onceDone THEN "idle" ELSE "lock"]
    /\ cnt' = [cnt EXCEPT !.startCalls = @ + 1,
                          !.startsReturned = IF onceDone THEN @ + 1 ELSE @,
                          !.overlap = @ \/ Overlaps(t)]
    /\ UNCHANGED <<kind, conf, Interval, Running, StopKey, onceDone, onceM, listeners, local>>
    /\ TimerUnch

\* Mutant of OnceRuns: a gate that does not test done under the mutex.
OnceRunsUnchecked(done) == TRUE

\* doSlow: whether f is run by the caller that holds the mutex.
OnceRuns(done) == ~done

\* doSlow: o.m.Lock(); if o.done == 0 { defer o.done.Store(1); f() }
\* (done is written only under the mutex, so the test is one step with the lock).
OnceLock(t) ==
    /\ pc[t] = "lock"
    /\ onceM = 0
    /\ onceM' = t
    /\ pc' = [pc EXCEPT ![t] = IF OnceRuns(onceDone) THEN "su_running" ELSE "unlock"]
    /\ UNCHANGED <<kind, conf, Interval, Running, StopKey, onceDone, listeners, local, cnt>>
    /\ TimerUnch

\* Watch.StartUnsafe: w.Running = true (TimerWatch.StartUnsafe calls it first).
StartUnsafe(t) ==
    /\ pc[t] = "su_running"
    /\ Running' = TRUE
    /\ pc' = [pc EXCEPT ![t] = IF kind = "TimerWatch" THEN "su_spawn" ELSE "store"]
    /\ cnt' = Bump("startUnsafeRuns")
    /\ UNCHANGED <<kind, conf, Interval, StopKey, onceDone, onceM, listeners, local>>
    /\ TimerUnch

\* TimerWatch.StartUnsafe: go w.timerLoop()
SpawnTimerLoop(t) ==
    /\ pc[t] = "su_spawn"
    /\ tpc' = "loop"
    /\ pc' = [pc EXCEPT ![t] = "store"]
    /\ cnt' = Bump("spawned")
    /\ UNCHANGED <<kind, conf, Interval, Running, StopKey, onceDone, onceM, listeners, local,
                   snap, idx, deadline, now, delivered, rvars, fvars, avars>>

\* Mutant of OnceDoneAfter: the gate is left open after f has run.
OnceDoneNeverSet == FALSE

\* doSlow: the value of done once f has run.
OnceDoneAfter == TRUE

\* doSlow, deferred: o.done.Store(1)
OnceStore(t) ==
    /\ pc[t] = "store"
    /\ onceDone' = OnceDoneAfter
    /\ pc' = [pc EXCEPT ![t] = "unlock"]
    /\ UNCHANGED <<kind, conf, Interval, Running, StopKey, onceM, listeners, local, cnt>>
    /\ TimerUnch

\* doSlow, deferred: o.m.Unlock(); Start returns.
OnceUnlock(t) ==
    /\ pc[t] = "unlock"
    /\ onceM' = 0
    /\ pc' = [pc EXCEPT ![t] = "idle"]
    /\ cnt' = Bump("startsReturned")
    /\ UNCHANGED <<kind, conf, Interval, Running, StopKey, onceDone, listeners, local>>
    /\ TimerUnch

\* ---- Watch.Stop ----

\* Mutant of StopProceeds: the guard is inverted, Stop tears down a watcher
\* that is not Running.
StopProceedsWhenStopped(running) == ~running

\* Mutant of StopProceeds: Stop without its Running guard.
StopProceedsUnguarded(running) == TRUE

\* Stop: whether the call goes on to the teardown, from the Running it read.
StopProceeds(running) == running

\* Stop: if !w.Running { return }
CallStop(t) ==
    /\ pc[t] = "idle"
    /\ cnt.startCalls + cnt.stopCalls + cnt.subs < MaxCalls
    /\ pc' = [pc EXCEPT ![t] = IF StopProceeds(Running) THEN "stop_set" ELSE "idle"]
    /\ cnt' = [cnt EXCEPT !.stopCalls = @ + 1,
                          !.stopsFound = IF StopProceeds(Running) THEN @ + 1 ELSE @,
                          !.overlap = @ \/ Overlaps(t)]
    /\ UNCHANGED <<kind, conf, Interval, Running, StopKey, onceDone, onceM, listeners, local>>
    /\ TimerUnch

\* Stop: w.Running = false; w.StopFn()
StopSet(t) ==
    /\ pc[t] = "stop_set"
    /\ Running' = FALSE
    /\ pc' = [pc EXCEPT ![t] = "stop_send"]
    /\ cnt' = Bump("stopFnRuns")
    /\ UNCHANGED <<kind, conf, Interval, StopKey, onceDone, onceM, listeners, local>>
    /\ TimerUnch

\* Stop: w.StopKey <- true; blocks while the buffer is full. Stop returns.
StopSend(t) ==
    /\ pc[t] = "stop_send"
    /\ Len(StopKey) < StopKeyCap
    /\ StopKey' = Append(StopKey, TRUE)
    /\ pc' = [pc EXCEPT ![t] = "idle"]
    /\ cnt' = [cnt EXCEPT !.stopSends = @ + 1, !.stopsReturned = @ + 1]
    /\ UNCHANGED <<kind, conf, Interval, Running, onceDone, onceM, listeners, local>>
    /\ TimerUnch

\* ---- Watch.Subscribe ----

\* Subscribe: append(w.listeners, handler) is evaluated ...
CallSubscribe(t, h) ==
    /\ pc[t] = "idle"
    /\ cnt.startCalls + cnt.stopCalls + cnt.subs < MaxCalls
    /\ local' = [local EXCEPT ![t] = Append(listeners, h)]
    /\ pc' = [pc EXCEPT ![t] = "sub_write"]
    /\ cnt' = [cnt EXCEPT !.subs = @ + 1, !.overlap = @ \/ Overlaps(t)]
    /\ UNCHANGED <<kind, conf, Interval, Running, StopKey, onceDone, onceM, listeners>>
    /\ TimerUnch

\* ... and then stored into w.listeners; Subscribe returns.
\* cnt.subAt keeps, for the target, the number of Emit calls begun when its
\* first Subscribe returned (-1: none has returned).
SubscribeStore(t) ==
    /\ pc[t] = "sub_write"
    /\ listeners' = local[t]
    /\ local' = [local EXCEPT ![t] = <<>>]
    /\ pc' = [pc EXCEPT ![t] = "idle"]
    /\ cnt' = [cnt EXCEPT !.subAt[local[t][Len(local[t])]] =
                              IF @ = -1 THEN cnt.emitCalls ELSE @]
    /\ UNCHANGED <<kind, conf, Interval, Running, StopKey, onceDone, onceM>>
    /\ TimerUnch

\* ---- TimerWatch.timerLoop ----

CallerUnch == UNCHANGED <<kind, conf, Interval, Running, onceDone, onceM, listeners, pc, local,
                        rvars, fvars, avars>>

\* Mutant of ArmDeadline: the timer is due as soon as it is armed.
ArmDeadlineAtOnce(n, d) == n

\* time.After(d) evaluated at time n: the time its channel becomes ready.
ArmDeadline(n, d) == n + d

\* Top of the for loop: the select evaluates time.After(w.Interval).
TimerArm ==
    /\ tpc = "loop"
    /\ deadline' = ArmDeadline(now, Interval)
    /\ tpc' = "select"
    /\ UNCHANGED <<StopKey, snap, idx, now, delivered, cnt>>
    /\ CallerUnch

\* select: the cases that are ready; Go picks any one of the ready cases.
TimerReady == now >= deadline
\* Mutant of StopReady: the select has no case for StopKey.
StopCaseMissing == FALSE
StopReady == Len(StopKey) > 0

\* Mutant of EmitHandler: the listeners are walked from the last to the first.
EmitHandlerReversed(s, i) == s[Len(s) + 1 - i]

\* Emit: the handler the range loop sends to at position i of the slice s.
EmitHandler(s, i) == s[i]

\* case <-time.After(w.Interval): w.Emit(0) is called; the range expression
\* w.listeners is evaluated once. With no listener Emit returns at once.
\* The load of the slice is one step: beside a Subscribe in progress it yields
\* the slice before or after that call's store.
TimerFire ==
    /\ tpc = "select"
    /\ TimerReady
    /\ snap' = listeners
    /\ idx' = 1
    /\ tpc' = IF listeners = <<>> THEN "loop" ELSE "emit"
    /\ cnt' = [cnt EXCEPT !.emitCalls = @ + 1,
                          !.emitsDone = IF listeners = <<>> THEN @ + 1 ELSE @]
    /\ UNCHANGED <<StopKey, deadline, now, delivered>>
    /\ CallerUnch

\* Emit: handler <- message completes (the target accepted the sample); after
\* the last handler Emit returns to the loop.
EmitSend ==
    /\ tpc = "emit"
    /\ delivered' = [delivered EXCEPT ![EmitHandler(snap, idx)] =
                        Append(@, <<cnt.emitCalls, idx>>)]
    /\ IF idx = Len(snap)
         THEN /\ tpc' = "loop"
              /\ cnt' = Bump("emitsDone")
              /\ idx' = idx
         ELSE /\ idx' = idx + 1
              /\ UNCHANGED <<tpc, cnt>>
    /\ UNCHANGED <<StopKey, snap, deadline, now>>
    /\ CallerUnch

\* case <-w.StopKey: return
TimerStop ==
    /\ tpc = "select"
    /\ StopReady
    /\ StopKey' = Tail(StopKey)
    /\ tpc' = "done"
    /\ UNCHANGED <<snap, idx, deadline, now, delivered, cnt>>
    /\ CallerUnch

\* The timer loop has a step it could take now: it is not waiting for the
\* interval to elapse.
TimerRunnable ==
    \/ tpc \in {"loop", "emit"}
    \/ tpc = "select" /\ (TimerReady \/ StopReady)

\* One time unit elapses while the timer loop is alive; the loop is late once
\* time has passed while it had a step to take.
TickUpTo(limit) ==
    /\ tpc \in {"loop", "select", "emit"}
    /\ now < limit
    /\ now' = now + 1
    /\ cnt' = [cnt EXCEPT !.late = @ \/ TimerRunnable]
    /\ UNCHANGED <<StopKey, tpc, snap, idx, deadline, delivered>>
    /\ CallerUnch

Tick == TickUpTo(MaxTime)

\* Time elapsing for a watcher that is started and left running.
TickRun == TickUpTo(MaxRun)

WatchNext ==
    \/ \E t \in Callers : CallStart(t)
    \/ \E t \in Callers : OnceLock(t)
    \/ \E t \in Callers : StartUnsafe(t)
    \/ \E t \in Callers : SpawnTimerLoop(t)
    \/ \E t \in Callers : OnceStore(t)
    \/ \E t \in Callers : OnceUnlock(t)
    \/ \E t \in Callers : CallStop(t)
    \/ \E t \in Callers : StopSet(t)
    \/ \E t \in Callers : StopSend(t)
    \/ \E t \in Callers, h \in Targets : CallSubscribe(t, h)
    \/ \E t \in Callers : SubscribeStore(t)
    \/ TimerArm
    \/ TimerFire
    \/ EmitSend
    \/ TimerStop
    \/ Tick

\* Calls made one at a time, as by one goroutine driving the watcher: a call
\* begins when no other call is in progress.
SeqStart(t) == ~Overlaps(t) /\ CallStart(t)
SeqStop(t) == ~Overlaps(t) /\ CallStop(t)
SeqSubscribe(t, h) == ~Overlaps(t) /\ CallSubscribe(t, h)

\* The watcher driven by calls made one at a time, beside its timer loop.
StopNext ==
    \/ \E t \in Callers : SeqStart(t)
    \/ \E t \in Callers : OnceLock(t)
    \/ \E t \in Callers : StartUnsafe(t)
    \/ \E t \in Callers : SpawnTimerLoop(t)
    \/ \E t \in Callers : OnceStore(t)
    \/ \E t \in Callers : OnceUnlock(t)
    \/ \E t \in Callers : SeqStop(t)
    \/ \E t \in Callers : StopSet(t)
    \/ \E t \in Callers : StopSend(t)
    \/ \E t \in Callers, h \in Targets : SeqSubscribe(t, h)
    \/ \E t \in Callers : SubscribeStore(t)
    \/ TimerArm
    \/ TimerFire
    \/ EmitSend
    \/ TimerStop
    \/ Tick

\* A step of a call in progress of caller t: a goroutine that can run does run.
Proceed(t) ==
    \/ OnceLock(t)
    \/ StartUnsafe(t)
    \/ SpawnTimerLoop(t)
    \/ OnceStore(t)
    \/ OnceUnlock(t)
    \/ StopSet(t)
    \/ StopSend(t)
    \/ SubscribeStore(t)

\* A step of the timer loop that waits for nothing but the scheduler (coming
\* back to the select) or for a subscriber taking the sample.
TimerProceed == TimerArm \/ EmitSend

\* Fair scheduling: every goroutine that can take a step takes one, every
\* subscriber takes the sample sent to it, and the select, which picks among
\* its ready cases at random, does not pass over the ready StopKey for ever.
WatchFairness ==
    /\ \A t \in Callers : WF_vars(Proceed(t))
    /\ WF_vars(TimerProceed)
    /\ SF_vars(TimerStop)

\* A watcher that is started and left running: Start and Subscribe are called,
\* Stop is not.
RunNext ==
    \/ \E t \in Callers : CallStart(t)
    \/ \E t \in Callers : OnceLock(t)
    \/ \E t \in Callers : StartUnsafe(t)
    \/ \E t \in Callers : SpawnTimerLoop(t)
    \/ \E t \in Callers : OnceStore(t)
    \/ \E t \in Callers : OnceUnlock(t)
    \/ \E t \in Callers, h \in Targets : CallSubscribe(t, h)
    \/ \E t \in Callers : SubscribeStore(t)
    \/ TimerArm
    \/ TimerFire
    \/ EmitSend
    \/ TickRun

(***************************************************************************)
(* Claims about package watch                                              *)
(***************************************************************************)
InStart(t) == pc[t] \in {"lock", "su_running", "su_spawn", "store", "unlock"}
InStop(t) == pc[t] \in {"stop_set", "stop_send"}

\* C2: however many Start(watcher) calls run concurrently, the StartUnsafe body
\* runs at most once and at most one timerLoop is spawned; once at least one
\* call was made and all have returned, the body has run exactly once (a
\* TimerWatch has exactly one timerLoop) and the watcher is Running unless a
\* Stop found it Running.
C2_StartOnce ==
    /\ cnt.startUnsafeRuns <= 1
    /\ cnt.spawned <= 1
    /\ (cnt.startCalls >= 1 /\ \A t \in Callers : ~InStart(t))
          => /\ cnt.startUnsafeRuns = 1
             /\ (kind = "TimerWatch" => cnt.spawned = 1)
             /\ (cnt.stopsFound = 0 => Running)

\* Two Start calls were inside once.Do together (one waits for the mutex the
\* other holds after running the body) and both have returned.
C2_Witness ==
    /\ cnt.startCalls >= 2
    /\ cnt.startsReturned = cnt.startCalls
    /\ cnt.overlap
    /\ cnt.stopCalls = 0
    /\ cnt.subs = 0
    /\ kind = "TimerWatch"
    /\ Running

\* C3: once a Stop() that found the watcher Running has returned, the timer
\* loop begins no further Emit.
C3_NoEmitAfterStop ==
    [][cnt.stopsReturned > 0 => cnt.emitCalls' = cnt.emitCalls]_vars

\* C4: when the calls are made one after the other, once a Stop() that found
\* the watcher Running has returned, StopFn has run exactly once, exactly one
\* value has been sent on StopKey, the watcher is not Running and no later
\* Stop() call goes past its guard.
C4_StopTwice ==
    (~cnt.overlap /\ cnt.stopsReturned >= 1)
        => /\ cnt.stopFnRuns = 1
           /\ cnt.stopSends = 1
           /\ ~Running
           /\ \A t \in Callers : ~InStop(t)

\* Start, Stop, Stop were called in sequence and the second Stop has returned.
C4_Witness ==
    /\ ~cnt.overlap
    /\ cnt.stopCalls = 2
    /\ cnt.stopsFound = 1
    /\ cnt.stopsReturned = 1
    /\ \A t \in Callers : pc[t] = "idle"

\* C5: Running is set at most once (only by the first run of StartUnsafe), and
\* never after a Stop() found the watcher Running.
C5_StateMonotone ==
    [][(Running' /\ ~Running) => (cnt.startUnsafeRuns = 0 /\ cnt.stopsFound = 0)]_vars

\* A Start call made after the watcher was stopped has returned and left the
\* watcher stopped.
C5_Witness ==
    /\ cnt.stopsReturned = 1
    /\ cnt.startCalls >= 2
    /\ cnt.startsReturned = cnt.startCalls
    /\ cnt.startUnsafeRuns = 1
    /\ ~Running

\* Number of times entry e occurs in the sequence q.
Count(q, e) == Cardinality({i \in 1..Len(q) : q[i] = e})

\* Lexicographic order on <<emit number, index>>.
Before(a, b) == a[1] < b[1] \/ (a[1] = b[1] /\ a[2] < b[2])

\* Positions of the listeners the Emit in progress (or the last one) has sent to.
SentUpTo == IF tpc = "emit" THEN idx - 1 ELSE Len(snap)

\* C6: Emit sends to the listeners of the call one at a time in subscription
\* order: every position before the one it is blocked at has received the
\* sample once, no position from there on has, after the return every position
\* has received it once, a sample reaches only targets registered at the call,
\* and every target receives the samples in emission order.
C6_EmitOrder ==
    /\ cnt.emitCalls >= 1 =>
          /\ \A i \in 1..Len(snap) :
                Count(delivered[snap[i]], <<cnt.emitCalls, i>>)
                    = IF i <= SentUpTo THEN 1 ELSE 0
          /\ \A h \in Targets : \A j \in 1..Len(delivered[h]) :
                delivered[h][j][1] = cnt.emitCalls
                    => /\ delivered[h][j][2] \in 1..Len(snap)
                       /\ snap[delivered[h][j][2]] = h
    /\ \A h \in Targets : \A j \in 1..Len(delivered[h]) :
          /\ delivered[h][j][1] \in 1..cnt.emitCalls
          /\ j > 1 => Before(delivered[h][j - 1], delivered[h][j])

\* The second Emit is blocked at the second of two distinct listeners after the
\* first listener accepted the sample.
C6_Witness ==
    /\ tpc = "emit"
    /\ cnt.emitCalls = 2
    /\ Len(snap) = 2
    /\ snap[1] # snap[2]
    /\ idx = 2
    /\ Len(delivered[snap[1]]) = 2

\* The timer loop of a TimerWatch has been spawned and no Stop() was called;
\* now is the time since the spawn.
LeftRunning == kind = "TimerWatch" /\ cnt.spawned = 1 /\ cnt.stopCalls = 0

\* The watcher has run for k*d + d/2 time units, k = Elapsed, d = Interval.
HalfWay == Interval % 2 = 0 /\ now % Interval = Interval \div 2
Elapsed == now \div Interval

\* C14 as claimed: a TimerWatch left running for k*d + d/2 time units has
\* made exactly k Emit calls and all have returned.
C14_ExactlyK ==
    (LeftRunning /\ HalfWay) => (cnt.emitCalls = Elapsed /\ cnt.emitsDone = Elapsed)

\* C14 amended: a TimerWatch left running for k*d + d/2 time units has made
\* at most k Emit calls, never more than one per elapsed interval, and exactly
\* k, all returned, when no time passed while the loop had a step to take
\* (re-arming the timer, calling Emit, a send to a subscriber).
C14_AtMostK ==
    LeftRunning
        => /\ cnt.emitCalls * Interval <= now
           /\ HalfWay => cnt.emitCalls <= Elapsed
           /\ (HalfWay /\ ~cnt.late)
                 => (cnt.emitCalls = Elapsed /\ cnt.emitsDone = Elapsed)

\* A watcher with interval 2 and a subscriber has run for 1*2 + 1 time units
\* without being late and has delivered one sample.
C14_Witness ==
    /\ LeftRunning
    /\ Interval = 2
    /\ now = 3
    /\ ~cnt.late
    /\ cnt.emitsDone = 1
    /\ \E h \in Targets : Len(delivered[h]) = 1

\* C15: the stop signal is observed at every suspension point of the timer
\* task, the one inside Emit included: a timer task waiting on a send to a
\* subscriber while a stop signal is pending can leave the send and exit.
C15_EmitObservesStop == (StopReady /\ tpc = "emit") => ENABLED TimerStop
\* C19: the watcher NewTimerWatch returned holds the configured interval when
\* that is positive and one second when it is zero or negative, and keeps it:
\* its Interval is strictly positive.
C19_IntervalDefault ==
    kind = "TimerWatch"
        => /\ conf > 0 => Interval = conf
           /\ conf <= 0 => Interval = Second
           /\ Interval > 0

\* A TimerWatch built from a negative interval has been started; its timer
\* is armed one second ahead.
C19_Witness ==
    /\ kind = "TimerWatch"
    /\ conf < 0
    /\ tpc = "select"
    /\ deadline = now + Second
\* A Stop() call waits on its send to the full StopKey buffer and nothing is
\* left to receive from it: a base Watch has no receiver, a timer loop that
\* has returned receives no more.
StopStuck(t) ==
    /\ pc[t] = "stop_send"
    /\ Len(StopKey) = StopKeyCap
    /\ (kind = "Watch" \/ tpc = "done")

\* C20: however the Stop() calls on a Running watcher interleave, StopFn runs
\* at most once, at most one value is sent on StopKey, and no Stop() call is
\* left waiting on its send for ever.
C20_ConcurrentStopOnce ==
    /\ cnt.stopFnRuns <= 1
    /\ cnt.stopSends <= 1
    /\ \A t \in Callers : ~StopStuck(t)
\* C23: while StartUnsafe has not run, Stop() calls leave StopKey empty and run
\* no StopFn; while no Stop() has found the watcher Running, nothing is sent on
\* StopKey, the timer loop has not returned, and once the Start calls have
\* returned the watcher is Running with the timer loop of a TimerWatch alive.
C23_StopBeforeStartNoop ==
    /\ cnt.startUnsafeRuns = 0
          => (StopKey = <<>> /\ cnt.stopFnRuns = 0 /\ cnt.stopSends = 0 /\ ~Running)
    /\ cnt.stopsFound = 0
          => /\ StopKey = <<>> /\ cnt.stopFnRuns = 0 /\ cnt.stopSends = 0
             /\ tpc # "done"
             /\ (cnt.startCalls >= 1 /\ \A t \in Callers : ~InStart(t))
                   => /\ Running
                      /\ kind = "TimerWatch" => tpc \in {"loop", "select", "emit"}

\* Stop() was called on a TimerWatch before its Start; the watcher was then
\* started and its timer loop has called Emit.
C23_Witness ==
    /\ ~cnt.overlap
    /\ cnt.stopCalls >= 1
    /\ cnt.stopsFound = 0
    /\ cnt.startsReturned >= 1
    /\ kind = "TimerWatch"
    /\ Running
    /\ cnt.emitCalls >= 1

\* A Stop() call waits on its send because the StopKey buffer is full.
StopBlocked(t) == pc[t] = "stop_send" /\ Len(StopKey) = StopKeyCap

\* C24: when Start(watcher), Stop() and Subscribe calls are made one at a time,
\* at most one value is ever sent on StopKey and no Stop() call waits on its
\* send, whether or not a timer loop is there to receive from StopKey.
C24_StopNeverBlocks ==
    ~cnt.overlap
        => /\ cnt.stopSends <= 1
           /\ cnt.stopFnRuns <= 1
           /\ \A t \in Callers : ~StopBlocked(t)

\* On a base Watch, Start, Stop, Start, Stop were called in sequence; all have
\* returned and the one value sent is still in the buffer.
C24_Witness ==
    /\ ~cnt.overlap
    /\ kind = "Watch"
    /\ cnt.startCalls = 2
    /\ cnt.startsReturned = 2
    /\ cnt.stopCalls = 2
    /\ cnt.stopsFound = 1
    /\ cnt.stopsReturned = 1
    /\ Len(StopKey) = 1
    /\ ~Running
    /\ \A t \in Callers : pc[t] = "idle"
\* A Subscribe(h) call has returned.
Subscribed(h) == cnt.subAt[h] # -1

\* The target h has received the sample of Emit call number e.
Received(h, e) == \E j \in 1..Len(delivered[h]) : delivered[h][j][1] = e

\* The target h has received the sample of every Emit call that began after
\* its Subscribe returned and has itself returned.
ReceivedSince(h) == \A e \in (cnt.subAt[h] + 1)..cnt.emitsDone : Received(h, e)

\* C22: a target receives no sample of an Emit call that began before its
\* Subscribe returned (no replay), and it has received the sample of every
\* Emit call that began after that and has returned; Subscribe returns in any
\* watcher state.
C22_NoReplay ==
    \A h \in Targets :
        /\ \A j \in 1..Len(delivered[h]) :
              Subscribed(h) /\ delivered[h][j][1] > cnt.subAt[h]
        /\ Subscribed(h) => ReceivedSince(h)

\* C25: however Subscribe calls interleave with each other and with the Emit
\* of the timer loop, every target whose Subscribe has returned is in the
\* listener list and has received the sample of every Emit call that began
\* after that and has returned.
C25_NoSubscriptionLost ==
    \A h \in Targets :
        Subscribed(h)
            => /\ \E i \in 1..Len(listeners) : listeners[i] = h
               /\ ReceivedSince(h)
\* C21: under fair scheduling and with subscribers that take every sample,
\* once a Stop() has found a TimerWatch Running its timer loop eventually
\* returns, and having returned it stays so: it calls Emit finitely often.
C21_TimerExits ==
    /\ (kind = "TimerWatch" /\ cnt.stopsFound >= 1) ~> (tpc = "done")
    /\ [](tpc = "done" => [](tpc = "done"))

\* The timer loop called Emit with a stop signal pending, the subscriber took
\* the sample, and the loop then returned.
C21_Witness ==
    /\ kind = "TimerWatch"
    /\ tpc = "done"
    /\ cnt.stopsFound >= 1
    /\ cnt.emitCalls >= 1
    /\ cnt.emitsDone = cnt.emitCalls
    /\ \E h \in Targets : Len(delivered[h]) >= 1

(***************************************************************************)
(* package global: StreamRegisterer                                        *)
(***************************************************************************)
Sinks == {"A", "B", "C"}
Chans == {"ch1", "ch2"}
\* The argument triples Start is called with: they differ in every component.
StartArgs == {[ctx |-> "ctx1", wg |-> "wg1", ch |-> "ch1"],
              [ctx |-> "ctx2", wg |-> "wg2", ch |-> "ch2"]}
NoArgs == [ctx |-> "none", wg |-> "none", ch |-> "none"]

\* The argument lists of one Register(w ...Stream) call.
SeqsUpTo(S, n) == UNION {[1..k -> S] : k \in 1..n}
RegisterArgs == SeqsUpTo(Sinks, MaxStreams)

RcntInit == [regCalls |-> 0, lateRegs |-> 0, startsBegun |-> 0, startsDone |-> 0,
             pushed |-> 0, pushedEarly |-> 0]

\* newRegisterer / new(StreamRegisterer): no stream registered.
RegIdle ==
    /\ streams = <<>>
    /\ regRes = "none"
    /\ rpc = "idle"
    /\ rsnap = <<>>
    /\ ridx = 0
    /\ rargs = NoArgs
    /\ invoked = <<>>
    /\ chq = [c \in Chans |-> <<>>]
    /\ observed = <<>>
    /\ rcnt = RcntInit
    /\ wg = 0
    /\ ctxDone = FALSE
    /\ chClosed = FALSE
    /\ sinkDone = <<>>

RegOnly == UNCHANGED <<wvars, fvars, avars>>
DrainUnch == UNCHANGED <<wg, ctxDone, chClosed, sinkDone>>

\* Register: the error it returns.
RegisterReturns == "nil"

\* Register: r.streams = append(r.streams, w...); return nil
\* (the main goroutine calls Register and Start one after the other).
Register(w) ==
    /\ rpc = "idle"
    /\ Len(streams) + Len(w) <= MaxStreams
    /\ streams' = streams \o w
    /\ regRes' = RegisterReturns
    /\ rcnt' = [rcnt EXCEPT !.regCalls = @ + 1,
                            !.lateRegs = IF rcnt.startsBegun > 0 THEN @ + 1 ELSE @]
    /\ UNCHANGED <<rpc, rsnap, ridx, rargs, invoked, chq, observed>>
    /\ DrainUnch
    /\ RegOnly

\* Start: for _, s := range r.streams; the range expression is evaluated once.
\* With no stream registered the loop body never runs and Start returns nil.
\* The pipeline is started once.
StartBegin(a) ==
    /\ rpc = "idle"
    /\ rcnt.startsBegun = 0
    /\ rargs' = a
    /\ rsnap' = streams
    /\ ridx' = 1
    /\ rpc' = IF streams = <<>> THEN "idle" ELSE "loop"
    /\ rcnt' = [rcnt EXCEPT !.startsBegun = @ + 1,
                            !.startsDone = IF streams = <<>> THEN @ + 1 ELSE @]
    /\ UNCHANGED <<streams, regRes, invoked, chq, observed>>
    /\ DrainUnch
    /\ RegOnly

\* Mutant of SinkCall: every sink is handed a context of its own.
SinkCallOwnContext(s, i, a) ==
    [sink |-> s[i], ctx |-> "background", wg |-> a.wg, ch |-> a.ch]

\* Start: the call s.Start(ctx, wg, ch) made for position i of the slice s.
SinkCall(s, i, a) == [sink |-> s[i], ctx |-> a.ctx, wg |-> a.wg, ch |-> a.ch]

\* Start, loop body: what the registry adds to the wait group for the stream
\* it starts: it makes no wg.Add call.
StartAdds == 0

\* Start, loop body: s.Start(ctx, wg, ch) starts the sink's run loop; after the
\* last stream Start returns nil.
StartSink ==
    /\ rpc = "loop"
    /\ invoked' = Append(invoked, SinkCall(rsnap, ridx, rargs))
    /\ observed' = Append(observed, <<>>)
    /\ sinkDone' = Append(sinkDone, FALSE)
    /\ wg' = wg + StartAdds
    /\ UNCHANGED <<ctxDone, chClosed>>
    /\ IF ridx = Len(rsnap)
         THEN /\ rpc' = "idle"
              /\ rcnt' = [rcnt EXCEPT !.startsDone = @ + 1]
              /\ ridx' = ridx
         ELSE /\ ridx' = ridx + 1
              /\ UNCHANGED <<rpc, rcnt>>
    /\ UNCHANGED <<streams, regRes, rsnap, rargs, chq>>
    /\ RegOnly

\* The collector pushes the next sample onto the channel Start was given;
\* the send blocks while the channel's buffer is full.
Push ==
    /\ rcnt.startsBegun > 0
    /\ ~chClosed
    /\ rcnt.pushed < MaxSamples
    /\ Len(chq[rargs.ch]) < ChanCap
    /\ chq' = [chq EXCEPT ![rargs.ch] = Append(@, rcnt.pushed + 1)]
    /\ rcnt' = [rcnt EXCEPT !.pushed = @ + 1,
                            !.pushedEarly = IF rpc = "idle" THEN @ ELSE @ + 1]
    /\ UNCHANGED <<streams, regRes, rpc, rsnap, ridx, rargs, invoked, observed>>
    /\ DrainUnch
    /\ RegOnly

\* The run loop of the sink started by call i receives from its channel: a
\* receive takes the sample out of the channel.
SinkReceive(i) ==
    /\ ~sinkDone[i]
    /\ chq[invoked[i].ch] # <<>>
    /\ observed' = [observed EXCEPT ![i] = Append(@, Head(chq[invoked[i].ch]))]
    /\ chq' = [chq EXCEPT ![invoked[i].ch] = Tail(@)]
    /\ UNCHANGED <<streams, regRes, rpc, rsnap, ridx, rargs, invoked, rcnt>>
    /\ DrainUnch
    /\ RegOnly

\* The main routine cancels the context it gave to Start.
Cancel ==
    /\ rcnt.startsBegun > 0
    /\ ~ctxDone
    /\ ctxDone' = TRUE
    /\ UNCHANGED <<streams, regRes, rpc, rsnap, ridx, rargs, invoked, chq, observed, rcnt,
                   wg, chClosed, sinkDone>>
    /\ RegOnly

\* The collector closes the channel it pushed the samples onto.
CloseChan ==
    /\ rcnt.startsBegun > 0
    /\ ~chClosed
    /\ chClosed' = TRUE
    /\ UNCHANGED <<streams, regRes, rpc, rsnap, ridx, rargs, invoked, chq, observed, rcnt,
                   wg, ctxDone, sinkDone>>
    /\ RegOnly

\* The run loop of the sink started by call i sees the cancellation, or the
\* channel closed and drained, and returns, releasing its slot: wg.Done().
\* (A counter below zero stands for the panic of sync.WaitGroup.)
SinkExit(i) ==
    /\ ~sinkDone[i]
    /\ ctxDone \/ (chClosed /\ chq[invoked[i].ch] = <<>>)
    /\ sinkDone' = [sinkDone EXCEPT ![i] = TRUE]
    /\ wg' = wg - 1
    /\ UNCHANGED <<streams, regRes, rpc, rsnap, ridx, rargs, invoked, chq, observed, rcnt,
                   ctxDone, chClosed>>
    /\ RegOnly

RegNext ==
    \/ \E w \in RegisterArgs : Register(w)
    \/ \E a \in StartArgs : StartBegin(a)
    \/ StartSink
    \/ Push
    \/ \E i \in 1..Len(invoked) : SinkReceive(i)

\* The pipeline with its shutdown: cancellation, close of the channel, sinks
\* returning.
DrainNext ==
    \/ \E w \in RegisterArgs : Register(w)
    \/ \E a \in StartArgs : StartBegin(a)
    \/ StartSink
    \/ Push
    \/ \E i \in 1..Len(invoked) : SinkReceive(i)
    \/ Cancel
    \/ CloseChan
    \/ \E i \in 1..Len(invoked) : SinkExit(i)

(***************************************************************************)
(* Claims about package global                                             *)
(***************************************************************************)
\* C1: with sinks A, B, C registered in that order and started with one shared
\* channel, once the samples pushed after Start returned have all left the
\* channel, each of the three sinks has received all of them in push order.
C1_EverySinkSeesAll ==
    (/\ streams = <<"A", "B", "C">>
     /\ rcnt.startsBegun = 1 /\ rcnt.startsDone = 1 /\ rcnt.lateRegs = 0
     /\ rcnt.pushed = 3 /\ rcnt.pushedEarly = 0
     /\ \A c \in Chans : chq[c] = <<>>)
        => \A i \in 1..Len(observed) : observed[i] = <<1, 2, 3>>

\* C9: a Register call made after Start has been called returns an error and
\* leaves the streams unchanged.
C9_RegisterAfterStartRejected ==
    [][(rcnt.startsBegun > 0 /\ rcnt.regCalls' = rcnt.regCalls + 1)
          => (regRes' # "nil" /\ streams' = streams)]_vars

\* Positions of the streams the Start in progress (or the last one) has started.
StartedUpTo == IF rpc = "loop" THEN ridx - 1 ELSE Len(streams)

\* C10: after Register calls followed by one Start(ctx, wg, ch), the calls
\* s.Start made are, in order, one per registered stream in registration order,
\* each with the ctx, wg and ch the registry's Start was given.
C10_StartInvokesAll ==
    (rcnt.startsBegun = 1 /\ rcnt.lateRegs = 0)
        => /\ Len(invoked) = StartedUpTo
           /\ \A i \in 1..Len(invoked) :
                 invoked[i] = [sink |-> streams[i], ctx |-> rargs.ctx,
                               wg |-> rargs.wg, ch |-> rargs.ch]

\* Two Register calls registered three distinct sinks and Start has returned.
C10_Witness ==
    /\ rcnt.regCalls = 2
    /\ rcnt.lateRegs = 0
    /\ rcnt.startsBegun = 1 /\ rcnt.startsDone = 1
    /\ Len(streams) = 3
    /\ Cardinality({streams[i] : i \in 1..3}) = 3
    /\ Len(invoked) = 3

\* The sinks started whose run loop has not returned.
Outstanding == {i \in 1..Len(sinkDone) : ~sinkDone[i]}

\* C16: once Start has returned, the wait group holds one slot for every
\* started sink that has not released its slot yet, so that a caller waiting
\* on the wait group returns only when every sink has returned.
C16_SlotPerSink ==
    (rcnt.startsDone = 1 /\ rcnt.lateRegs = 0)
        => /\ Len(sinkDone) = Len(streams)
           /\ wg = Cardinality(Outstanding)

(***************************************************************************)
(* package fingerprint                                                     *)
(***************************************************************************)
\* Byte strings (Go string and []byte alike) are sequences of byte values;
\* string(b) and []byte(s) copy the bytes unchanged.
Bytes == {0, 255}
SeqsFrom0(S, n) == UNION {[1..k -> S] : k \in 0..n}
Data == SeqsFrom0(Bytes, MaxDataLen)

Size == 32          \* sha256.Size: bytes of a digest
BlockSize == 64     \* sha256.BlockSize

RECURSIVE Absorb(_, _)
Absorb(acc, val) ==
    IF val = <<>> THEN acc
    ELSE Absorb((acc * 31 + Head(val) + 1) % 65521, Tail(val))

\* h := sha256.New(); h.Write(val); h.Sum(nil): SHA-256 is stood for by a
\* deterministic digest of Size bytes that tells the inputs of Data apart.
Sum256(val) ==
    [i \in 1..Size |-> (Absorb(7 + Len(val), val) * (i + 2) + i * i) % 256]

\* fmt.Sprintf("%x", b): two lower-case hexadecimal digits per byte (ASCII).
HexDigit(n) == IF n < 10 THEN 48 + n ELSE 87 + n
RECURSIVE Hex(_)
Hex(b) ==
    IF b = <<>> THEN <<>>
    ELSE <<HexDigit(Head(b) \div 16), HexDigit(Head(b) % 16)>> \o Hex(Tail(b))

\* The textual digest of every input of Data, computed once.
HexSum == [d \in Data |-> Hex(Sum256(d))]

zerofp == <<>>      \* Fingerprint{}: the empty hash
NoErr == [kind |-> "nil", expected |-> <<>>, got |-> <<>>]
Err(k) == [kind |-> k, expected |-> <<>>, got |-> <<>>]
\* validationError(fmt.Errorf("hash mismatch detected, expected %s, got %s", ...))
ValidationError(prevHash, newHash) ==
    [kind |-> "ValidationError", expected |-> prevHash, got |-> newHash]

\* New: the fingerprint of val; hash.Hash.Write takes all of val and never fails.
New(val) ==
    LET n == Len(val)
        hstr == HexSum[val]     \* fmt.Sprintf("%x", h.Sum(nil))
    IN  IF n # Len(val) THEN [fp |-> zerofp, err |-> Err("construction")]
        ELSE IF Len(hstr) < BlockSize THEN [fp |-> zerofp, err |-> Err("construction")]
        ELSE [fp |-> hstr, err |-> NoErr]

\* Mutant of Mismatch: the first run (nothing persisted yet) is not let through.
MismatchNoFirstRun(prevHash, newHash) == prevHash # newHash

\* validate: whether the previous hash read counts as a mismatch.
Mismatch(prevHash, newHash) == Len(prevHash) > 1 /\ prevHash # newHash

\* validate(newfp, prev): read is what ioutil.ReadAll(prev) returned.
validate(newHash, read) ==
    IF ~read.ok THEN Err("io")
    ELSE IF Mismatch(read.bytes, newHash) THEN ValidationError(read.bytes, newHash)
    ELSE NoErr

\* Mutant of NewWithValidation: the computed fingerprint is returned beside a
\* validation error.
NewWithValidationKeepsFp(val, read) ==
    LET made == New(val)
        verr == validate(made.fp, read)
    IN  [fp |-> made.fp, err |-> IF made.err # NoErr THEN made.err ELSE verr]

\* NewWithValidation(val, out, prev)
NewWithValidation(val, read) ==
    LET made == New(val)
        verr == validate(made.fp, read)
    IN  IF made.err # NoErr THEN [fp |-> zerofp, err |-> made.err]
        ELSE IF verr # NoErr THEN [fp |-> zerofp, err |-> verr]
        ELSE [fp |-> made.fp, err |-> NoErr]

\* Write: the bytes handed to f.out.Write.
WriteBytes(hash) == hash

\* Mutant of WriteResult: the count of bytes written is not compared.
WriteResultNoCount(n, failed, hash) == IF failed THEN Err("io") ELSE NoErr

\* Write: the error returned, from the (n, err) of f.out.Write and len(f.hash).
WriteResult(n, failed, hash) ==
    IF failed THEN Err("io")
    ELSE IF n # Len(hash) THEN Err("short write")
    ELSE NoErr

Prefix(q, n) == SubSeq(q, 1, n)

\* What a previous run left in the store.
PrevStores == {<<>>, <<97>>, <<97, 98>>} \cup {HexSum[d] : d \in Data}

HistInit == [op |-> "none", data |-> <<>>, read |-> [ok |-> TRUE, bytes |-> <<>>],
             before |-> <<>>, werr |-> FALSE, ops |-> 0,
             persisted |-> [ok |-> FALSE, data |-> <<>>]]

FpIdle ==
    /\ store = <<>>
    /\ fp = zerofp
    /\ fperr = NoErr
    /\ fphist = HistInit

FpInit ==
    /\ store \in PrevStores
    /\ fp = zerofp
    /\ fperr = NoErr
    /\ fphist = HistInit

FpOnly == UNCHANGED <<wvars, rvars, avars>>

\* fp, err := New(out, val)
DoNew(val) ==
    /\ fphist.ops < MaxFpOps
    /\ fp' = New(val).fp
    /\ fperr' = New(val).err
    /\ fphist' = [fphist EXCEPT !.op = "New", !.data = val, !.ops = @ + 1]
    /\ UNCHANGED store
    /\ FpOnly

\* fp, err := NewWithValidation(val, out, prev), prev reading the store; the
\* read of the store succeeds or fails.
DoNewWithValidation(val, ok) ==
    /\ fphist.ops < MaxFpOps
    /\ LET read == [ok |-> ok, bytes |-> IF ok THEN store ELSE <<>>]
           res == NewWithValidation(val, read)
       IN  /\ fp' = res.fp
           /\ fperr' = res.err
           /\ fphist' = [fphist EXCEPT !.op = "NewWithValidation", !.data = val,
                                       !.read = read, !.ops = @ + 1]
    /\ UNCHANGED store
    /\ FpOnly

\* err := fp.Write(): the writer appends the n bytes it accepts to the store and
\* reports an error or none (whatever the count it returns).
DoWrite(n, failed) ==
    /\ fphist.ops < MaxFpOps
    /\ fp # zerofp
    /\ n \in 0..Len(WriteBytes(fp))
    /\ store' = store \o Prefix(WriteBytes(fp), n)
    /\ fperr' = WriteResult(n, failed, fp)
    /\ fphist' = [fphist EXCEPT
                    !.op = "Write", !.before = store, !.werr = failed, !.ops = @ + 1,
                    !.persisted = [ok |-> store = <<>> /\ WriteResult(n, failed, fp) = NoErr,
                                   data |-> fphist.data]]
    /\ UNCHANGED fp
    /\ FpOnly

\* The byte counts a writer is tried with: nothing, one byte, all but one, all.
WriteCounts == {0, 1, 2 * Size - 1, 2 * Size}

FpNext ==
    \/ \E val \in Data : DoNew(val)
    \/ \E val \in Data, ok \in BOOLEAN : DoNewWithValidation(val, ok)
    \/ \E n \in WriteCounts, failed \in BOOLEAN : DoWrite(n, failed)

(***************************************************************************)
(* Claims about package fingerprint                                        *)
(***************************************************************************)
Validated == fphist.op = "NewWithValidation" /\ fphist.read.ok

\* C7: validation against a previous digest of any length >= 1 that differs
\* from the new digest fails with a ValidationError reporting both digests.
C7_NonEmptyMismatchFails ==
    (/\ Validated
     /\ Len(fphist.read.bytes) >= 1
     /\ fphist.read.bytes # HexSum[fphist.data])
        => fperr = ValidationError(fphist.read.bytes, HexSum[fphist.data])

\* C8: NewWithValidation on the data whose fingerprint a successful Write
\* persisted into an empty store, reading that store, succeeds and returns the
\* persisted digest; NewWithValidation reading an empty store succeeds.
C8_RoundTrip ==
    /\ (Validated /\ fphist.persisted.ok /\ fphist.persisted.data = fphist.data)
          => (fperr = NoErr /\ fp = fphist.read.bytes /\ fp = HexSum[fphist.data])
    /\ (Validated /\ fphist.read.bytes = <<>>)
          => (fperr = NoErr /\ fp = HexSum[fphist.data])

\* New, Write into the empty store, then NewWithValidation of the same data
\* reading the store back.
C8_Witness ==
    /\ Validated
    /\ fphist.ops = 3
    /\ fphist.persisted.ok
    /\ fphist.persisted.data = fphist.data
    /\ Len(fphist.data) = 1
    /\ Len(store) = 2 * Size
    /\ fperr = NoErr

\* C11: NewWithValidation writes nothing to the store in any outcome, the
\* store changes only in a Write() call, and NewWithValidation returning an
\* error returns the zero Fingerprint.
C11_NoSideEffect ==
    [][/\ (fphist'.ops = fphist.ops + 1 /\ fphist'.op = "NewWithValidation")
            => /\ store' = store
               /\ fperr' # NoErr => fp' = zerofp
       /\ store' # store => fphist'.op = "Write"]_vars

\* NewWithValidation read a non-empty store holding another digest and
\* returned a ValidationError after a fingerprint had been computed.
C11_Witness ==
    /\ Validated
    /\ fphist.ops >= 2
    /\ fperr.kind = "ValidationError"
    /\ fp = zerofp
    /\ store = fphist.read.bytes
    /\ Len(store) = 2 * Size

\* C12: NewWithValidation returns a ValidationError exactly when the previous
\* digest was read successfully, is not empty and differs from the new digest;
\* a failed read is returned as an error that is not a ValidationError.
C12_ValidationErrorIff ==
    fphist.op = "NewWithValidation"
        => /\ fperr.kind = "ValidationError"
                <=> /\ fphist.read.ok
                    /\ fphist.read.bytes # <<>>
                    /\ fphist.read.bytes # HexSum[fphist.data]
           /\ ~fphist.read.ok => fperr.kind \notin {"nil", "ValidationError"}

\* C13: a Write() that returned nil appended the whole textual digest to the
\* store and its writer reported no error.
C13_WriteAllOrError ==
    (fphist.op = "Write" /\ fperr = NoErr)
        => /\ ~fphist.werr
           /\ store = fphist.before \o fp
           /\ Len(fp) = 2 * Size

\* The writer accepted a single byte of the digest without reporting an error
\* and Write returned an error.
C13_Witness ==
    /\ fphist.op = "Write"
    /\ ~fphist.werr
    /\ Len(store) = Len(fphist.before) + 1
    /\ fperr # NoErr

(***************************************************************************)
(* package algorand: the discovery adapter                                 *)
(***************************************************************************)
\* NewAlgorand: a := &Algorand{}; no call made yet.
AdapterIdle ==
    /\ alog = <<>>
    /\ acrashed = FALSE

AdapterOnly == UNCHANGED <<wvars, rvars, fvars>>

\* A method is called and returns res, or panics: the panic is not recovered
\* by the adapter, the calling goroutine makes no further call.
Called(op, res) ==
    /\ ~acrashed
    /\ Len(alog) < MaxAdapterCalls
    /\ alog' = Append(alog, [op |-> op, res |-> res])
    /\ acrashed' = (res = "panic")
    /\ AdapterOnly

\* What the methods return.
IsConfiguredReturns == "panic"      \* panic("implement me!")
DiscoverReturns == "panic"          \* panic("implement me!")
ResetConfigReturns == "panic"       \* panic("implement me!")
LogEventsListReturns == "nil"       \* return nil
HelloReturns == "Algorand"          \* return "Algorand"
ContainerRegexReturns == <<>>       \* return []string{}
NodeLogPathReturns == "panic"       \* panic("implement me!")

IsConfigured == Called("IsConfigured", IsConfiguredReturns)
Discover == Called("Discover", DiscoverReturns)
ResetConfig == Called("ResetConfig", ResetConfigReturns)
LogEventsList == Called("LogEventsList", LogEventsListReturns)
Hello == Called("Hello", HelloReturns)
ContainerRegex == Called("ContainerRegex", ContainerRegexReturns)
NodeLogPath == Called("NodeLogPath", NodeLogPathReturns)

AdapterNext ==
    \/ IsConfigured
    \/ Discover
    \/ ResetConfig
    \/ LogEventsList
    \/ Hello
    \/ ContainerRegex
    \/ NodeLogPath

(***************************************************************************)
(* Claims about package algorand                                           *)
(***************************************************************************)
\* The NodeIdentity fields an adapter must hold to be configured (process id
\* and log path), and those this adapter has populated: type Algorand struct {}
\* holds none.
RequiredFields == {"pid", "nodeLogPath"}
Populated == {}
AllPopulated == RequiredFields \subseteq Populated

\* C17: every IsConfigured() call returns, with true exactly when every
\* required field is populated and false otherwise; every ResetConfig() call
\* returns, and an IsConfigured() made right after it returns false.
C17_IsConfiguredPure ==
    \A i \in 1..Len(alog) :
        /\ alog[i].op = "IsConfigured"
              => alog[i].res = (IF AllPopulated THEN "true" ELSE "false")
        /\ alog[i].op = "ResetConfig"
              => /\ alog[i].res = "nil"
                 /\ (i < Len(alog) /\ alog[i + 1].op = "IsConfigured")
                       => alog[i + 1].res = "false"

\* C18: every Discover() call returns, with success exactly when the adapter
\* is configured afterwards and with a discovery-failure error otherwise; an
\* IsConfigured() made right after a successful Discover() returns true.
C18_DiscoverConfigures ==
    \A i \in 1..Len(alog) :
        alog[i].op = "Discover"
            => /\ alog[i].res = (IF AllPopulated THEN "nil" ELSE "discovery-failure")
               /\ (i < Len(alog) /\ alog[i + 1].op = "IsConfigured")
                     => (alog[i].res = "nil" <=> alog[i + 1].res = "true")

(***************************************************************************)
(* Specifications                                                          *)
(***************************************************************************)
InitWatch == WatchInit /\ RegIdle /\ FpIdle /\ AdapterIdle
InitRegistry == WatchIdle /\ RegIdle /\ FpIdle /\ AdapterIdle
InitFingerprint == WatchIdle /\ RegIdle /\ FpInit /\ AdapterIdle
InitAdapter == WatchIdle /\ RegIdle /\ FpIdle /\ AdapterIdle

SpecWatch == InitWatch /\ [][WatchNext]_vars

SpecStopFair == InitWatch /\ [][StopNext]_vars /\ WatchFairness

SpecRun == InitWatch /\ [][RunNext]_vars

SpecRegistry == InitRegistry /\ [][RegNext]_vars

SpecDrain == InitRegistry /\ [][DrainNext]_vars

SpecAdapter == InitAdapter /\ [][AdapterNext]_vars

SpecFingerprint == InitFingerprint /\ [][FpNext]_vars

====
